---- MODULE Spec2Model ----
(***************************************************************************)
(* Model of simple_parsing/helpers/fields.py: the field-declaration        *)
(* helpers field(), choice() and subgroups(), the metadata mappings they    *)
(* write to, and the mapping objects they keep references to.               *)
(*                                                                          *)
(* Python objects are named by strings.  Two names are the same object      *)
(* exactly when the strings are equal (Python `is`); PyEq is Python `==`.   *)
(* A Python dict is a sequence of <<key, value>> pairs in insertion order.  *)
(* An optional entry (a metadata key, a keyword argument) is <<>> when      *)
(* absent and <<x>> when present.                                           *)
(***************************************************************************)
EXTENDS Integers, Sequences, FiniteSets, TLC

\* Longest tuple of positional plain choices the caller passes.
MaxLen == 2

(***************************************************************************)
(* The Python values the caller uses                                       *)
(***************************************************************************)
MISSING == "MISSING"

\* Keys of the caller's mapping; "b" is also used as a value.
Keys == {"a", "b"}

\* Record types.  TypeA2 is a distinct class object that compares equal to
\* TypeA (a metaclass __eq__); TypeB is equal to nothing else.
Dataclasses == {"TypeA", "TypeA2", "TypeB"}

\* Values the caller stores in the mapping: a plain string that is also a
\* key, and two record types.
DictValues == {"b", "TypeA", "TypeA2"}

\* Plain values passed as positional choices and as defaults.
PlainValues == {"a", "b"}

\* Enumerated types: E has three members, E0 has none.
EnumTypes == {"E", "E0"}

\* The mapping object the caller owns, and the metadata mapping it owns.
DictIds == {"d1"}
CallerMeta == "caller_metadata"
FreshMeta == "fresh_metadata"
MetaIds == {CallerMeta, FreshMeta}

\* Python `==` (and the comparison behind `in` on lists, views, dict keys).
PyEq(x, y) == x = y \/ {x, y} = {"TypeA", "TypeA2"}

\* inspect.isclass(v) and dataclasses.is_dataclass(v)
IsDataclassType(v) == v \in Dataclasses

\* `for e in choice_enum`: the (name, member) pairs in declaration order.
EnumItems(e) ==
    IF e = "E" THEN << <<"B", "E.B">>, <<"A", "E.A">>, <<"C", "E.C">> >>
    ELSE << >>

\* isinstance(default, choice_enum)
IsInstance(x, e) == \E i \in 1..Len(EnumItems(e)) : EnumItems(e)[i][2] = x

\* The OrderedDict object choice() builds for an enumerated type.
EnumDictRef(e) == IF e = "E" THEN "OrderedDict(E)" ELSE "OrderedDict(E0)"

\* subgroups.keys(): the live view object of a mapping.
KeysView(d) == IF d = "d1" THEN "d1.keys()" ELSE "?"
IsKeysView(x) == \E d \in DictIds : KeysView(d) = x
ViewDict(x) == CHOOSE d \in DictIds : KeysView(d) = x

(***************************************************************************)
(* dict operations                                                         *)
(***************************************************************************)
\* list(d.keys())
DictKeys(items) == [i \in 1..Len(items) |-> items[i][1]]

\* x in d / x in d.keys()
InKeys(x, items) == \E i \in 1..Len(items) : PyEq(items[i][1], x)

\* x in d.values()
InValues(x, items) == \E i \in 1..Len(items) : PyEq(items[i][2], x)

\* d[k] for a key that is present
DictGet(items, k) == items[CHOOSE i \in 1..Len(items) : PyEq(items[i][1], k)][2]

\* d[k] = v: rebinding keeps the key's position, a new key goes last.
DictSet(items, k, v) ==
    IF InKeys(k, items)
    THEN [i \in 1..Len(items) |-> IF PyEq(items[i][1], k) THEN <<items[i][1], v>> ELSE items[i]]
    ELSE Append(items, <<k, v>>)

\* del d[k]
DictDel(items, k) == SelectSeq(items, LAMBDA p : ~PyEq(p[1], k))

\* The items a mapping reference denotes: the caller's mapping as it is now,
\* or the OrderedDict built from an enumerated type.
Deref(ref, D) ==
    IF ref \in DictIds THEN D[ref]
    ELSE EnumItems(CHOOSE e \in EnumTypes : EnumDictRef(e) = ref)

(***************************************************************************)
(* Metadata mappings and field descriptors                                 *)
(***************************************************************************)
EmptyMeta ==
    [alias |-> <<>>, to_dict |-> <<>>, encoding_fn |-> <<>>, decoding_fn |-> <<>>,
     cmd |-> <<>>, positional |-> <<>>, custom_args |-> <<>>,
     choice_dict |-> <<>>, subgroups |-> <<>>, subgroup_default |-> <<>>]

NoCustomArgs == [choices |-> <<>>, type |-> <<>>, action |-> <<>>]

NoField == [default |-> MISSING, default_factory |-> MISSING, metadata |-> ""]

\* The `alias` argument: None, a str or a list of str.
NoAlias == [kind |-> "none", str |-> "", items |-> <<>>]
AliasStr(x) == [kind |-> "str", str |-> x, items |-> <<>>]
AliasListOf(l) == [kind |-> "list", str |-> "", items |-> l]

\* `if alias:` and `alias if isinstance(alias, list) else [alias]`
Truthy(alias) ==
    \/ alias.kind = "str" /\ alias.str # ""
    \/ alias.kind = "list" /\ alias.items # <<>>
AsList(alias) == IF alias.kind = "list" THEN alias.items ELSE <<alias.str>>

\* Keyword arguments of field() left at their defaults.
FieldDefaults ==
    [default |-> MISSING, alias |-> NoAlias, cmd |-> TRUE, positional |-> FALSE,
     to_dict |-> TRUE, encoding_fn |-> <<>>, decoding_fn |-> <<>>,
     default_factory |-> MISSING, metadata |-> <<>>, custom_args |-> NoCustomArgs]

\* The outcome of a call: "ok" and a field descriptor, or the exception raised;
\* the metadata heap as the call leaves it; the warnings it emitted.
Returned(fld, M, w) == [status |-> "ok", fld |-> fld, metas |-> M, warnings |-> w]
Raised(exc, M, w) == [status |-> exc, fld |-> NoField, metas |-> M, warnings |-> w]

(***************************************************************************)
(* field()                                                                 *)
(***************************************************************************)
field(a, M) ==
    LET mid == IF a.metadata # <<>> THEN a.metadata[1] ELSE FreshMeta
        m0 == IF a.metadata # <<>> THEN M[mid] ELSE EmptyMeta
        m1 == IF Truthy(a.alias) THEN [m0 EXCEPT !.alias = <<AsList(a.alias)>>] ELSE m0
        m2 == [m1 EXCEPT !.to_dict = <<a.to_dict>>]
        m3 == IF a.encoding_fn # <<>> THEN [m2 EXCEPT !.encoding_fn = a.encoding_fn] ELSE m2
        m4 == IF a.decoding_fn # <<>> THEN [m3 EXCEPT !.decoding_fn = a.decoding_fn] ELSE m3
        m5 == [m4 EXCEPT !.cmd = <<a.cmd>>, !.positional = <<a.positional>>]
        custom == a.custom_args # NoCustomArgs
        m6 == IF custom THEN [m5 EXCEPT !.custom_args = <<a.custom_args>>] ELSE m5
        action == a.custom_args.action
        M1 == [M EXCEPT ![mid] = m6]
        default ==
            IF custom /\ action = <<"store_false">> THEN "True"
            ELSE IF custom /\ action = <<"store_true">> THEN "False"
            ELSE a.default
    IN  IF custom /\ action = <<"store_false">> /\ a.default \notin {MISSING, "True"}
        THEN Raised("RuntimeError", M1, 0)
        ELSE IF custom /\ action = <<"store_true">> /\ a.default \notin {MISSING, "False"}
        THEN Raised("RuntimeError", M1, 0)
        ELSE IF default # MISSING
        THEN Returned([default |-> default, default_factory |-> MISSING, metadata |-> mid], M1, 0)
        ELSE Returned([default |-> MISSING, default_factory |-> a.default_factory,
                       metadata |-> mid], M1, 0)

(***************************************************************************)
(* choice()                                                                *)
(***************************************************************************)
\* The value of the `choices` keyword choice() hands to field().
ChoicesTuple(t) == [kind |-> "tuple", items |-> t, obj |-> ""]
ChoicesList(l) == [kind |-> "list", items |-> l, obj |-> ""]
ChoicesObject(x) == [kind |-> "object", items |-> <<>>, obj |-> x]

\* EnumDefault with the matching name kept as the default (no substitution).
EnumDefault_KeepsName(default, e) ==
    IF default # MISSING /\ ~IsInstance(default, e)
    THEN IF InKeys(default, EnumItems(e))
         THEN [raise |-> FALSE, default |-> default, warnings |-> 1]
         ELSE [raise |-> TRUE, default |-> default, warnings |-> 0]
    ELSE [raise |-> FALSE, default |-> default, warnings |-> 0]

\* The enum branch's treatment of `default`: the default to use, the
\* warnings emitted, and whether ValueError is raised.
EnumDefault(default, e) ==
    IF default # MISSING /\ ~IsInstance(default, e)
    THEN IF InKeys(default, EnumItems(e))
         THEN [raise |-> FALSE, default |-> DictGet(EnumItems(e), default), warnings |-> 1]
         ELSE [raise |-> TRUE, default |-> default, warnings |-> 0]
    ELSE [raise |-> FALSE, default |-> default, warnings |-> 0]

\* The closures choice() builds over choice_dict, applied to the items the
\* captured mapping object has when the closure is called.
FirstMatch(items, value) ==
    CHOOSE i \in 1..Len(items) :
        /\ PyEq(items[i][2], value)
        /\ \A j \in 1..(i - 1) : ~PyEq(items[j][2], value)

\* _encoding_fn with the value test before the key test.
_encoding_fn_ValueFirst(items, value) ==
    IF InValues(value, items) THEN items[FirstMatch(items, value)][1]
    ELSE value

_encoding_fn(items, value) ==
    IF InKeys(value, items) THEN value
    ELSE IF InValues(value, items) THEN items[FirstMatch(items, value)][1]
    ELSE value

\* _decoding_fn returning its argument without the lookup.
_decoding_fn_NoLookup(items, value) == value

_decoding_fn(items, value) ==
    IF InKeys(value, items) THEN DictGet(items, value) ELSE value

EncodingFn(ref) == [fn |-> "_encoding_fn", choice_dict |-> ref]
DecodingFn(ref) == [fn |-> "_decoding_fn", choice_dict |-> ref]

\* metadata = kwargs.setdefault("metadata", {})
SetDefaultMetadata(kw) == IF kw.metadata # <<>> THEN kw.metadata[1] ELSE FreshMeta
MetadataBefore(kw, M) == IF kw.metadata # <<>> THEN M[kw.metadata[1]] ELSE EmptyMeta

choice(choices, default, kw, M, D) ==
    IF Len(choices) = 0 THEN Raised("AssertionError", M, 0)
    ELSE IF Len(choices) = 1
    THEN LET c == choices[1]
             isEnum == c \in EnumTypes
             ed == IF isEnum THEN EnumDefault(default, c)
                   ELSE [raise |-> FALSE, default |-> default, warnings |-> 0]
             ref == IF isEnum THEN EnumDictRef(c) ELSE c
         IN  IF ed.raise THEN Raised("ValueError", M, 0)
             ELSE IF isEnum \/ c \in DictIds
             THEN LET mid == SetDefaultMetadata(kw)
                      m1 == [MetadataBefore(kw, M) EXCEPT !.choice_dict = <<ref>>]
                      kw1 == [kw EXCEPT
                                !.metadata = <<mid>>,
                                !.encoding_fn = IF @ = <<>> THEN <<EncodingFn(ref)>> ELSE @,
                                !.decoding_fn = IF @ = <<>> THEN <<DecodingFn(ref)>> ELSE @,
                                !.default = ed.default,
                                !.custom_args.choices = <<ChoicesList(DictKeys(Deref(ref, D)))>>]
                      r == field(kw1, [M EXCEPT ![mid] = m1])
                  IN  [r EXCEPT !.warnings = ed.warnings]
             ELSE field([kw EXCEPT !.default = default,
                                   !.custom_args.choices = <<ChoicesObject(c)>>], M)
    ELSE field([kw EXCEPT !.default = default,
                          !.custom_args.choices = <<ChoicesTuple(choices)>>], M)

(***************************************************************************)
(* subgroups()                                                             *)
(***************************************************************************)
\* [k for k, v in subgroups.items() if v is default_factory], and with ==
KeysIdentical(items, f) == DictKeys(SelectSeq(items, LAMBDA p : p[2] = f))
KeysEqual(items, f) == DictKeys(SelectSeq(items, LAMBDA p : PyEq(p[2], f)))

\* MatchingKeys without the identity pass.
MatchingKeys_EqualityOnly(items, f) == KeysEqual(items, f)

MatchingKeys(items, f) ==
    IF KeysIdentical(items, f) # <<>> THEN KeysIdentical(items, f) ELSE KeysEqual(items, f)

\* BothGiven testing `default is MISSING` instead of `is not MISSING`.
BothGiven_WrongTest(default, default_factory) ==
    default_factory # MISSING /\ default = MISSING

\* The guard that rejects default together with default_factory.
BothGiven(default, default_factory) == default_factory # MISSING /\ default # MISSING

\* FactoryOfDefault taking the first value of the mapping.
FactoryOfDefault_First(items, default) == items[1][2]

\* default_factory = subgroups[default]
FactoryOfDefault(items, default) == DictGet(items, default)

subgroups(sg, args, default, default_factory, kw, M, D) ==
    LET items == D[sg]
        mid == SetDefaultMetadata(kw)
        m1 == [MetadataBefore(kw, M) EXCEPT !.subgroups = <<sg>>,
                                            !.subgroup_default = <<default>>]
        M1 == [M EXCEPT ![mid] = m1]
        kw1 == [kw EXCEPT !.metadata = <<mid>>, !.custom_args.type = <<"str">>]
        choices == <<KeysView(sg)>> \o args
        WithDefault(k) == [M1 EXCEPT ![mid].subgroup_default = <<k>>]
    IN  IF ~(\A i \in 1..Len(items) : IsDataclassType(items[i][2]))
        THEN Raised("ValueError", M, 0)
        ELSE IF BothGiven(default, default_factory) THEN Raised("ValueError", M1, 0)
        ELSE IF default # MISSING /\ ~InKeys(default, items) THEN Raised("ValueError", M1, 0)
        ELSE IF default_factory # MISSING /\ ~InValues(default_factory, items)
        THEN Raised("ValueError", M1, 0)
        ELSE IF default # MISSING
        THEN choice(choices, MISSING,
                    [kw1 EXCEPT !.default_factory = FactoryOfDefault(items, default)],
                    WithDefault(default), D)
        ELSE IF default_factory # MISSING
        THEN IF Len(MatchingKeys(items, default_factory)) > 1
             THEN Raised("ValueError", M1, 0)
             ELSE choice(choices, MISSING, [kw1 EXCEPT !.default_factory = default_factory],
                         WithDefault(MatchingKeys(items, default_factory)[1]), D)
        ELSE choice(choices, MISSING, [kw1 EXCEPT !.default_factory = MISSING],
                    WithDefault(MISSING), D)

(***************************************************************************)
(* The program: a caller that owns one mapping and one metadata mapping,   *)
(* edits the mapping, and declares fields.  `last` is the latest call: its  *)
(* arguments, its outcome, the descriptor it returned, and the items the    *)
(* mapping it was given had when it was called (decl).                      *)
(***************************************************************************)
VARIABLES dicts, metas, last

vars == <<dicts, metas, last>>

NoArgs ==
    [choices |-> <<>>, subgroups |-> "", default |-> MISSING, default_factory |-> MISSING,
     metadata |-> <<>>, alias |-> NoAlias, cmd |-> TRUE, positional |-> FALSE,
     action |-> <<>>]

NoCall ==
    [op |-> "none", args |-> NoArgs, status |-> "none", warnings |-> 0,
     fld |-> NoField, decl |-> <<>>]

\* What the caller holds after a call: its own metadata mapping as the call
\* left it, and the new descriptor's metadata mapping when the call made one.
Heap(r) ==
    [id \in MetaIds |->
        IF id = CallerMeta THEN r.metas[id]
        ELSE IF r.status = "ok" /\ r.fld.metadata = FreshMeta THEN r.metas[id]
        ELSE EmptyMeta]

Record(op, args, r, decl) ==
    [op |-> op, args |-> args, status |-> r.status, warnings |-> r.warnings,
     fld |-> r.fld, decl |-> decl]

Init ==
    /\ dicts = [d \in DictIds |-> <<>>]
    /\ metas = [id \in MetaIds |-> EmptyMeta]
    /\ last = NoCall

\* The caller runs d[k] = v on its mapping.
SetItem(d, k, v) ==
    /\ dicts' = [dicts EXCEPT ![d] = DictSet(@, k, v)]
    /\ UNCHANGED <<metas, last>>

\* The caller runs del d[k] on its mapping.
DelItem(d, k) ==
    /\ InKeys(k, dicts[d])
    /\ dicts' = [dicts EXCEPT ![d] = DictDel(@, k)]
    /\ UNCHANGED <<metas, last>>

\* The caller calls field(default, alias, cmd, positional, metadata=md, action=...).
Field(default, alias, cmd, positional, action, md) ==
    LET a == [FieldDefaults EXCEPT !.default = default, !.alias = alias, !.cmd = cmd,
                                   !.positional = positional, !.metadata = md,
                                   !.custom_args.action = action]
        r == field(a, metas)
        args == [NoArgs EXCEPT !.default = default, !.alias = alias, !.cmd = cmd,
                               !.positional = positional, !.action = action,
                               !.metadata = md]
    IN  /\ last' = Record("field", args, r, <<>>)
        /\ metas' = Heap(r)
        /\ UNCHANGED dicts

\* The caller calls choice(*choices, default=default, metadata=md).
Choice(choices, default, md) ==
    LET r == choice(choices, default, [FieldDefaults EXCEPT !.metadata = md], metas, dicts)
        args == [NoArgs EXCEPT !.choices = choices, !.default = default, !.metadata = md]
        decl == IF Len(choices) = 1 /\ choices[1] \in DictIds THEN dicts[choices[1]]
                ELSE IF Len(choices) = 1 /\ choices[1] \in EnumTypes
                THEN EnumItems(choices[1])
                ELSE <<>>
    IN  /\ last' = Record("choice", args, r, decl)
        /\ metas' = Heap(r)
        /\ UNCHANGED dicts

\* The caller calls subgroups(d, default=default, default_factory=f, metadata=md).
Subgroups(d, default, f, md) ==
    LET r == subgroups(d, <<>>, default, f, [FieldDefaults EXCEPT !.metadata = md],
                       metas, dicts)
        args == [NoArgs EXCEPT !.subgroups = d, !.default = default,
                               !.default_factory = f, !.metadata = md]
    IN  /\ last' = Record("subgroups", args, r, dicts[d])
        /\ metas' = Heap(r)
        /\ UNCHANGED dicts

\* The arguments the caller draws from.
Tuples(S, n) == UNION {[1..k -> S] : k \in 0..n}
PositionalChoices ==
    Tuples(PlainValues, MaxLen) \cup {<<e>> : e \in EnumTypes} \cup {<<d>> : d \in DictIds}
ChoiceDefaults == {MISSING, "a", "B", "E.B"}
AliasArgs == {NoAlias, AliasStr("x"), AliasListOf(<<"x", "y">>)}
ActionArgs == {<<>>, <<"store_true">>, <<"store_false">>}
FieldDefaultArgs == {MISSING, "True", "False"}
SubgroupDefaults == {MISSING, "a", "b"}
FactoryArgs == {MISSING, "TypeA", "TypeB"}

Next ==
    \/ \E d \in DictIds, k \in Keys, v \in DictValues : SetItem(d, k, v)
    \/ \E d \in DictIds, k \in Keys : DelItem(d, k)
    \/ \E default \in FieldDefaultArgs, alias \in AliasArgs, cmd \in BOOLEAN,
          action \in ActionArgs :
            Field(default, alias, cmd, FALSE, action, <<>>)
    \/ \E choices \in PositionalChoices, default \in ChoiceDefaults :
            Choice(choices, default, <<>>)
    \/ \E d \in DictIds, default \in SubgroupDefaults, f \in FactoryArgs :
            Subgroups(d, default, f, <<>>)

Spec == Init /\ [][Next]_vars

(***************************************************************************)
(* The same caller, passing its own metadata mapping to the declarations   *)
(* (metadata=m) and leaving its mapping of choices alone.                  *)
(***************************************************************************)
MetadataArgs == {<<>>, <<CallerMeta>>}

InitMeta ==
    /\ dicts = [d \in DictIds |-> << <<"a", "TypeA">>, <<"b", "TypeA2">> >>]
    /\ metas = [id \in MetaIds |-> EmptyMeta]
    /\ last = NoCall

NextMeta ==
    \/ \E alias \in {NoAlias, AliasStr("x")}, cmd \in BOOLEAN, md \in MetadataArgs :
            Field(MISSING, alias, cmd, FALSE, <<>>, md)
    \/ \E choices \in {<<"a", "b">>, <<"d1">>, <<"E">>}, md \in MetadataArgs :
            Choice(choices, MISSING, md)
    \/ \E d \in DictIds, default \in SubgroupDefaults, md \in MetadataArgs :
            Subgroups(d, default, MISSING, md)

SpecMeta == InitMeta /\ [][NextMeta]_vars

(***************************************************************************)
(* What the latest descriptor shows to its readers                         *)
(***************************************************************************)
Ok == last.status = "ok"
LastMeta == metas[last.fld.metadata]

\* The call was choice(x) with x a single mapping or a single enumerated type.
MappingChoice ==
    /\ last.op = "choice"
    /\ Len(last.args.choices) = 1
    /\ last.args.choices[1] \in DictIds \cup EnumTypes

\* The call was choice(*values) with one or more plain values.
PlainChoice ==
    /\ last.op = "choice"
    /\ Len(last.args.choices) >= 1
    /\ \A i \in 1..Len(last.args.choices) : last.args.choices[i] \in PlainValues

\* The mapping a choice(x) call was given, as that object is now.
GivenMapping ==
    IF last.args.choices[1] \in DictIds THEN dicts[last.args.choices[1]]
    ELSE EnumItems(last.args.choices[1])

\* metadata["encoding_fn"](x) and metadata["decoding_fn"](x), called now.
Encode(x) == _encoding_fn(Deref(LastMeta.encoding_fn[1].choice_dict, dicts), x)
Decode(x) == _decoding_fn(Deref(LastMeta.decoding_fn[1].choice_dict, dicts), x)

\* The `choices` the descriptor's custom arguments hold, read now: a list or
\* tuple is its items, a keys view is the present keys of its mapping.
CanonicalChoices ==
    LET c == LastMeta.custom_args[1].choices[1]
    IN  IF c.kind = "object"
        THEN IF IsKeysView(c.obj) THEN DictKeys(dicts[ViewDict(c.obj)]) ELSE <<c.obj>>
        ELSE c.items

\* Values encode and decode are tried on.
Universe == Keys \cup DictValues \cup {"TypeB", "zzz", "A", "B", "E.A", "E.B"}

Indices(M, P(_)) == {i \in 1..Len(M) : P(M[i])}
Least(S) == CHOOSE i \in S : \A j \in S : i <= j

(***************************************************************************)
(* Claims                                                                  *)
(***************************************************************************)

\* C1: choice(*values, default=d) over one or more plain values, with d given
\* and equal to none of them, raises instead of returning a field.
C1_PlainDefaultNotInChoicesRaises ==
    ( /\ PlainChoice
      /\ last.args.default # MISSING
      /\ \A i \in 1..Len(last.args.choices) : ~PyEq(last.args.choices[i], last.args.default) )
    => ~Ok

\* C2: a choice or subgroups call whose choice set has no entry (no positional
\* choice, a mapping with no key, an enumerated type with no member) raises;
\* every descriptor such a call returns had at least one choice when declared.
C2_EmptyChoiceSetRaises ==
    /\ (last.op = "choice" /\ last.args.choices = <<>>) => ~Ok
    /\ (Ok /\ MappingChoice) => Len(last.decl) >= 1
    /\ (Ok /\ last.op = "subgroups") => Len(last.decl) >= 1

\* C3: choice(E, default=d) over an enumerated type E with d given: a member d
\* is kept and nothing is warned; a d that is the name of member m gives one
\* warning and default m; any other d raises.  On success the choices are the
\* member names in declaration order.
C3_EnumDefault ==
    \A e \in EnumTypes :
        (last.op = "choice" /\ last.args.choices = <<e>> /\ last.args.default # MISSING) =>
            LET d == last.args.default
                members == {EnumItems(e)[i][2] : i \in 1..Len(EnumItems(e))}
                named == {p \in {EnumItems(e)[i] : i \in 1..Len(EnumItems(e))} : p[1] = d}
            IN  /\ d \in members =>
                    Ok /\ last.fld.default = d /\ last.warnings = 0
                /\ (d \notin members /\ named # {}) =>
                    /\ Ok
                    /\ last.warnings = 1
                    /\ \A p \in named : last.fld.default = p[2]
                /\ (d \notin members /\ named = {}) => ~Ok
                /\ Ok => CanonicalChoices = [i \in 1..Len(EnumItems(e)) |-> EnumItems(e)[i][1]]

\* C3 witness: choice(E, default="B") returned a field whose default is the
\* member E.B, with one warning.
C3_Witness ==
    /\ last.op = "choice"
    /\ last.args.choices = <<"E">>
    /\ last.args.default = "B"
    /\ Ok
    /\ last.warnings = 1
    /\ last.fld.default = "E.B"
    /\ CanonicalChoices = <<"B", "A", "C">>

SubgroupsCall ==
    /\ last.op = "subgroups"
    /\ \A i \in 1..Len(last.decl) :
            IsDataclassType(last.decl[i][2])

\* Positions of M whose value is the object f, and whose value equals f.
IdenticalTo(M, f) == Indices(M, LAMBDA p : p[2] = f)
EqualTo(M, f) == Indices(M, LAMBDA p : PyEq(p[2], f))

\* C5 as stated: subgroups(M, default_factory=F) with no default raises when F
\* equals no value of M, raises whenever F equals the values of more than one
\* key, and otherwise stores the one matching key as the subgroup default.
C5_FactoryAmbiguousByEquality ==
    (SubgroupsCall /\ last.args.default = MISSING /\ last.args.default_factory # MISSING) =>
        LET M == last.decl
            eq == EqualTo(M, last.args.default_factory)
        IN  /\ eq = {} => ~Ok
            /\ Cardinality(eq) > 1 => ~Ok
            /\ Cardinality(eq) = 1 =>
                    Ok /\ \A i \in eq : LastMeta.subgroup_default = <<M[i][1]>>

\* C5 amended: it raises when F equals no value of M; it raises when more than
\* one key holds the object F itself, or none does and more than one key
\* holds a value equal to F; otherwise it succeeds and the subgroup default is
\* the one key holding F itself, or failing that the one key whose value
\* equals F.
C5_FactoryIdentityFirst ==
    (SubgroupsCall /\ last.args.default = MISSING /\ last.args.default_factory # MISSING) =>
        LET M == last.decl
            same == IdenticalTo(M, last.args.default_factory)
            eq == EqualTo(M, last.args.default_factory)
            matches == IF same # {} THEN same ELSE eq
        IN  /\ eq = {} => ~Ok
            /\ Cardinality(matches) > 1 => ~Ok
            /\ Cardinality(matches) = 1 =>
                    /\ Ok
                    /\ \A i \in matches : LastMeta.subgroup_default = <<M[i][1]>>
                    /\ last.fld.default_factory = last.args.default_factory

\* C5 witness: F is the value of one key and equals the value of another, and
\* the declaration succeeded with the first of these as subgroup default.
C5_Witness ==
    /\ SubgroupsCall
    /\ last.args.default = MISSING
    /\ last.args.default_factory # MISSING
    /\ Cardinality(IdenticalTo(last.decl, last.args.default_factory)) = 1
    /\ Cardinality(EqualTo(last.decl, last.args.default_factory)) = 2
    /\ Ok
    /\ \E i \in IdenticalTo(last.decl, last.args.default_factory) :
            LastMeta.subgroup_default = <<last.decl[i][1]>>

\* C6: subgroups(M, default=k) with no default_factory, all values of M record
\* types: raises when k is no key of M; when k is a key, the subgroup default
\* is k, the field's default factory is M[k] and the field has no default.
\* With neither given, the subgroup default is MISSING and there is no
\* default factory.
C6_DefaultKey ==
    (SubgroupsCall /\ last.args.default_factory = MISSING) =>
        LET M == last.decl
            k == last.args.default
            at == Indices(M, LAMBDA p : p[1] = k)
        IN  /\ (k # MISSING /\ at = {}) => ~Ok
            /\ (k # MISSING /\ at # {}) =>
                    /\ Ok
                    /\ LastMeta.subgroup_default = <<k>>
                    /\ \A i \in at : last.fld.default_factory = M[i][2]
                    /\ last.fld.default = MISSING
            /\ k = MISSING =>
                    /\ Ok
                    /\ LastMeta.subgroup_default = <<MISSING>>
                    /\ last.fld.default_factory = MISSING
                    /\ last.fld.default = MISSING

\* C6 witness: subgroups(M, default=k) succeeded with k the second key of M
\* and M[k] as default factory.
C6_Witness ==
    /\ SubgroupsCall
    /\ last.args.default_factory = MISSING
    /\ Ok
    /\ Len(last.decl) = 2
    /\ last.decl[2][1] = last.args.default
    /\ last.fld.default_factory = last.decl[2][2]
    /\ last.fld.default_factory # last.decl[1][2]

\* C7: subgroups(M, default=k, default_factory=F) with both given raises and
\* returns no field, whatever M, k and F are.
C7_BothGivenRaises ==
    (last.op = "subgroups" /\ last.args.default # MISSING
        /\ last.args.default_factory # MISSING)
    => (~Ok /\ last.fld = NoField)

\* C7 witness: both were given, k a key of M and F the value M[k], every value
\* a record type, and the call raised.
C7_Witness ==
    /\ SubgroupsCall
    /\ last.args.default # MISSING
    /\ \E i \in 1..Len(last.decl) :
            /\ last.decl[i][1] = last.args.default
            /\ last.decl[i][2] = last.args.default_factory
    /\ last.status = "ValueError"

\* C8: a call does not modify the metadata mapping the caller passed to it,
\* and does not change the metadata seen through the descriptor an earlier
\* call returned.
C8_NoSharedMetadata ==
    [][ /\ last'.args.metadata = <<CallerMeta>> => metas'[CallerMeta] = metas[CallerMeta]
        /\ (Ok /\ last.fld.metadata = CallerMeta) => metas'[CallerMeta] = LastMeta ]_vars

\* The call was choice(M) or subgroups(M) with M the caller's mapping.
CallerMappingCall ==
    \/ last.op = "subgroups"
    \/ last.op = "choice" /\ Len(last.args.choices) = 1 /\ last.args.choices[1] \in DictIds

\* The mapping the descriptor's metadata holds, read now.
StoredMapping ==
    IF last.op = "subgroups" THEN dicts[LastMeta.subgroups[1]]
    ELSE Deref(LastMeta.choice_dict[1], dicts)

\* C9: after choice(M) or subgroups(M) returned a descriptor, whatever the
\* caller does to M, the descriptor's choices are M's keys at declaration, its
\* stored mapping is M at declaration, and encode and decode answer as they
\* did at declaration.
C9_DeclaredMappingIsFrozen ==
    (Ok /\ CallerMappingCall) =>
        /\ CanonicalChoices = DictKeys(last.decl)
        /\ StoredMapping = last.decl
        /\ last.op = "choice" =>
            \A x \in Universe :
                /\ Encode(x) = _encoding_fn(last.decl, x)
                /\ Decode(x) = _decoding_fn(last.decl, x)

====
